---- MODULE Spec2Model ----
(***************************************************************************)
(* A model of prismsort.py (Prism Sort glitch algorithm v0.1.3).           *)
(*                                                                         *)
(* Three specifications share the variables below:                         *)
(*   Spec            the driver: command line, intensity failsafe, the     *)
(*                   passes of main (glitch: border, tiling loops, the     *)
(*                   per-block probability; then the crop);                *)
(*   SpecPixSort     one call of pixSort on a small canvas, row by row;    *)
(*   SpecPartialSort partialSort as a function of its argument and of the  *)
(*                   values its random draws return.                       *)
(* pixSort changes pixel values only, never the size of the canvas nor a   *)
(* loop variable of glitch, so Spec keeps the rectangle of each pixSort    *)
(* call and SpecPixSort keeps the pixels.                                  *)
(***************************************************************************)
EXTENDS Integers, Sequences, FiniteSets, TLC

VARIABLES
    pc,             \* position in the program
    \* ---- module globals (lines 104-115) and the locals of main / glitch
    BLOCKS, INTENSITY, ROTATION, FUZZY_EDGES, DITHER,
    IMAGE_WIDTH, IMAGE_HEIGHT,
    imWidth, imHeight,          \* im.width, im.height of the working canvas
    wBlock, hBlock, currentHeight, currentWidth,
    k,                          \* the exponent drawn at lines 312-313
    p,                          \* the probability handed to pixSort, a fraction
    visited,                    \* canvas coordinates inside a block handed to pixSort
    NUM_OUTPUT, iteration,
    outWidth, outHeight,        \* size of the image main saves
    \* ---- pixSort (lines 209-260)
    image,                      \* pixel values of the canvas, by (x, y)
    startW, startH, endW, endH, y,
    line, originalLine, colour, restored,
    offsets,                    \* the row offset drawn for each pixel of the line
    wrote,                      \* the coordinates putpixel was given and accepted
    before,                     \* the canvas as it was when the row was read
    \* ---- partialSort (lines 162-183)
    numList, ls, a, b, asc, mid, raised

driverVars == <<BLOCKS, INTENSITY, ROTATION, FUZZY_EDGES, IMAGE_WIDTH, IMAGE_HEIGHT,
                wBlock, hBlock, currentHeight, currentWidth, k, visited,
                NUM_OUTPUT, iteration, outWidth, outHeight>>
pixVars == <<image, startW, startH, endW, endH, y, line, originalLine, colour,
             restored, offsets, wrote, before>>
sortVars == <<numList, ls, a, b, asc, mid, raised>>
vars == <<pc, driverVars, DITHER, imWidth, imHeight, p, pixVars, sortVars>>

None == "None"

(***************************************************************************)
(* Bounds of the model.                                                    *)
(***************************************************************************)
MaxLen == 4
MaxDim == 5
MaxBlocks == 3
MaxIntensity == 2
MaxOutput == 2
MaxCanvasWidth == 3
MaxCanvasHeight == 2

(***************************************************************************)
(* Pixels: 3-tuples (R, G, B), compared as Python compares tuples.         *)
(***************************************************************************)
Palette == { <<0, 0, 1>>, <<0, 1, 0>>, <<0, 1, 1>>, <<1, 0, 0>> }

TupleLess(s, t) ==
    \/ s[1] < t[1]
    \/ s[1] = t[1] /\ s[2] < t[2]
    \/ s[1] = t[1] /\ s[2] = t[2] /\ s[3] < t[3]

TupleLeq(s, t) == s = t \/ TupleLess(s, t)

\* Python's s[i:j] for 0 <= i, j (indices past the end are clipped)
Slice(s, i, j) == SubSeq(s, i + 1, IF j > Len(s) THEN Len(s) ELSE j)

RECURSIVE InsertSorted(_, _)
InsertSorted(x, s) ==
    IF s = <<>> THEN <<x>>
    ELSE IF TupleLess(x, Head(s)) THEN <<x>> \o s
    ELSE <<Head(s)>> \o InsertSorted(x, Tail(s))

RECURSIVE sorted(_)
sorted(s) ==
    IF s = <<>> THEN <<>>
    ELSE InsertSorted(s[Len(s)], sorted(SubSeq(s, 1, Len(s) - 1)))

reversed(s) == [i \in 1..Len(s) |-> s[Len(s) + 1 - i]]

\* random.randrange(lo, hi): the values it can return; none means ValueError
randrange(lo, hi) == lo..(hi - 1)

\* a faulty variant: the end case sorts [a, b) like its sibling branches
SortEndAsMiddle(l, ia, ib) ==
    Slice(l, 0, ia) \o reversed(sorted(Slice(l, ia, ib))) \o Slice(l, ib, Len(l))

SortMiddleAsc(l, ia, ib) ==
    Slice(l, 0, ia) \o sorted(Slice(l, ia, ib)) \o Slice(l, ib, Len(l))

SortBeginning(l, ia, ib) == sorted(Slice(l, 0, ib)) \o Slice(l, ib, Len(l))

SortMiddleDesc(l, ia, ib) ==
    Slice(l, 0, ia) \o reversed(sorted(Slice(l, ia, ib))) \o Slice(l, ib, Len(l))

SortEnd(l, ia, ib) ==
    Slice(l, 0, ia) \o reversed(sorted(Slice(l, ia, Len(l))))

\* lines 173-182, for given outcomes of the two draws and the two coin flips
SortBranch(l, ia, ib, up, middle) ==
    IF up THEN (IF middle THEN SortMiddleAsc(l, ia, ib) ELSE SortBeginning(l, ia, ib))
    ELSE (IF middle THEN SortMiddleDesc(l, ia, ib) ELSE SortEnd(l, ia, ib))

\* partialSort(numList): every outcome, one per value of the draws.
\* randrange(len(ls) - 1) raises ValueError when len(ls) < 2.
partialSort(l) ==
    IF randrange(0, Len(l) - 1) = {}
    THEN { [raised |-> TRUE, ls |-> None, a |-> None, b |-> None,
            asc |-> None, mid |-> None] }
    ELSE UNION { { [raised |-> FALSE, ls |-> SortBranch(l, ia, ib, up, middle),
                    a |-> ia, b |-> ib, asc |-> up, mid |-> middle] :
                     ib \in randrange(ia + 1, Len(l)),
                     up \in BOOLEAN, middle \in BOOLEAN } :
                 ia \in randrange(0, Len(l) - 1) }

(***************************************************************************)
(* Arithmetic of the driver.                                               *)
(***************************************************************************)
Max(i, j) == IF i >= j THEN i ELSE j
Min(i, j) == IF i <= j THEN i ELSE j
Abs(i) == IF i >= 0 THEN i ELSE -i

\* int(n / d) for d > 0: Python's int() truncates toward zero
TruncDiv(n, d) == IF n >= 0 THEN n \div d ELSE -((-n) \div d)

RECURSIVE Pow(_, _)
Pow(base, e) == IF e = 0 THEN 1 ELSE base * Pow(base, e - 1)

\* lines 312-313: the exponents randrange can return
Exponents(blocks, intensity) ==
    randrange(blocks - 4 + intensity, blocks - 1 + intensity)

\* lines 311-313: 1 - (blocks**2 / (blocks + 1)**2) ** e, as a fraction num/den
\* with den > 0 (blocks >= 1)
Prob(blocks, e) ==
    IF e >= 0
    THEN [num |-> Pow(blocks + 1, 2 * e) - Pow(blocks, 2 * e),
          den |-> Pow(blocks + 1, 2 * e)]
    ELSE [num |-> Pow(blocks, 2 * (-e)) - Pow(blocks + 1, 2 * (-e)),
          den |-> Pow(blocks, 2 * (-e))]

\* a faulty variant: the intensity is replaced only when the sum is below 2
FailsafeBelowTwo(blocks, intensity) ==
    IF blocks + intensity >= 2 THEN intensity ELSE 3 - blocks

\* line 439: failsafe for intensity
Failsafe(blocks, intensity) ==
    IF blocks + intensity >= 3 THEN intensity ELSE 3 - blocks

\* ImageOps.expand(image, border): the border is added on both sides
BorderedSize(size, border) == size + 2 * border

\* lines 287-288
Border(wb, hb) == IF wb >= hb THEN wb ELSE hb

\* lines 314-315: int(block * 2/3) if blocks > 1 else block
Stride(blocks, block) == IF blocks > 1 THEN TruncDiv(block * 2, 3) ELSE block

\* lines 296-302: current + block * 2/3 <= max(IMAGE_HEIGHT, IMAGE_WIDTH) * 2
InBound(current, block, w, h) == 3 * current + 2 * block <= 6 * Max(w, h)

\* lines 343-345 for the angles of the model: |sin| or |cos| is 1.0
Trig(rotation) == 1

\* lines 346-353: left and top of the crop box; the fuzzy term is
\* original / BLOCKS * trig
CropLow(current, original, blocks, fuzzy, rotation) ==
    TruncDiv((current - original) * blocks
               - (IF fuzzy THEN original * Trig(rotation) ELSE 0),
             2 * blocks)

\* a faulty variant: the original size is left out of the right and bottom edges
CropHighWithoutOriginal(current, original, blocks, fuzzy, rotation) ==
    TruncDiv((current - original) * blocks
               + (IF fuzzy THEN original * Trig(rotation) ELSE 0),
             2 * blocks)

\* lines 354-363: right and bottom of the crop box
CropHigh(current, original, blocks, fuzzy, rotation) ==
    TruncDiv(2 * original * blocks + (current - original) * blocks
               + (IF fuzzy THEN original * Trig(rotation) ELSE 0),
             2 * blocks)

\* the rectangle glitch hands to pixSort at lines 303-307, as canvas coordinates:
\* pixSort reads getpixel((y, x)) with y in [startH, endH) = [currentWidth,
\* currentWidth + wBlock) and x in [startW, endW) = [currentHeight,
\* currentHeight + hBlock)
BlockCoords(cw, ch, wb, hb, w, h) ==
    { c \in (0..(w - 1)) \X (0..(h - 1)) :
        /\ cw <= c[1] /\ c[1] < cw + wb
        /\ ch <= c[2] /\ c[2] < ch + hb }

CanvasCoords(w, h) == (0..(w - 1)) \X (0..(h - 1))

(***************************************************************************)
(* The driver: __main__ (lines 389-441), main (330-386), glitch (263-327). *)
(***************************************************************************)
DEFAULT_BLOCKS == 9
DEFAULT_NUM_OUTPUT == 1
DEFAULT_INTENSITY == 0
DEFAULT_ROTATION == 0

\* the command lines of the model: -b, -i, -a, -n given as integers, -f given or not
BlockArgs == (-1)..MaxBlocks
IntensityArgs == (-MaxIntensity)..MaxIntensity
AngleArgs == {0, 90, -90, 180}
OutputArgs == 0..MaxOutput
ImageSizes == 1..MaxDim

\* the module's globals as lines 104-115 set them
GlobalsAtDefault ==
    /\ BLOCKS = DEFAULT_BLOCKS /\ NUM_OUTPUT = DEFAULT_NUM_OUTPUT
    /\ INTENSITY = DEFAULT_INTENSITY /\ ROTATION = DEFAULT_ROTATION
    /\ FUZZY_EDGES = FALSE /\ DITHER = FALSE
    /\ IMAGE_WIDTH = None /\ IMAGE_HEIGHT = None

\* no call of main, glitch, pixSort, partialSort has started
DriverIdle ==
    /\ wBlock = None /\ hBlock = None /\ currentHeight = None /\ currentWidth = None
    /\ k = None /\ visited = {} /\ iteration = None
    /\ outWidth = None /\ outHeight = None

PixSortIdle ==
    /\ startW = None /\ startH = None /\ endW = None /\ endH = None /\ y = None
    /\ line = None /\ originalLine = None /\ colour = None /\ restored = None
    /\ offsets = None /\ wrote = <<>> /\ before = None

PartialSortIdle ==
    /\ numList = None /\ ls = None /\ a = None /\ b = None /\ asc = None
    /\ mid = None /\ raised = None

Init ==
    /\ pc = "parse"
    /\ GlobalsAtDefault
    /\ imWidth = None /\ imHeight = None /\ p = None /\ image = None
    /\ DriverIdle /\ PixSortIdle /\ PartialSortIdle

\* lines 404-437: the options set the globals (-d is left at its default here:
\* DITHER is read by pixSort only, and SpecPixSort draws it)
ParseOptions ==
    /\ pc = "parse"
    /\ BLOCKS' \in BlockArgs
    /\ INTENSITY' \in IntensityArgs
    /\ ROTATION' \in AngleArgs
    /\ NUM_OUTPUT' \in OutputArgs
    /\ FUZZY_EDGES' \in BOOLEAN
    /\ pc' = "failsafe"
    /\ UNCHANGED <<DITHER, IMAGE_WIDTH, IMAGE_HEIGHT, imWidth, imHeight, wBlock, hBlock,
                   currentHeight, currentWidth, k, p, visited, iteration,
                   outWidth, outHeight, pixVars, sortVars>>

\* line 439
IntensityFailsafe ==
    /\ pc = "failsafe"
    /\ INTENSITY' = Failsafe(BLOCKS, INTENSITY)
    /\ pc' = "open"
    /\ UNCHANGED <<BLOCKS, ROTATION, NUM_OUTPUT, FUZZY_EDGES, DITHER, IMAGE_WIDTH,
                   IMAGE_HEIGHT, imWidth, imHeight, wBlock, hBlock, currentHeight,
                   currentWidth, k, p, visited, iteration, outWidth, outHeight,
                   pixVars, sortVars>>

\* lines 440, 333: the size of the image is read once; main starts at iteration 0
OpenImage ==
    /\ pc = "open"
    /\ IMAGE_WIDTH' \in ImageSizes
    /\ IMAGE_HEIGHT' \in ImageSizes
    /\ iteration' = 0
    /\ pc' = "main"
    /\ UNCHANGED <<BLOCKS, INTENSITY, ROTATION, NUM_OUTPUT, FUZZY_EDGES, DITHER,
                   imWidth, imHeight, wBlock, hBlock, currentHeight, currentWidth,
                   k, p, visited, outWidth, outHeight, pixVars, sortVars>>

\* lines 334-339: while iteration < NUM_OUTPUT, open the file again and glitch it
MainLoop ==
    /\ pc = "main"
    /\ IF iteration < NUM_OUTPUT
       THEN /\ imWidth' = IMAGE_WIDTH /\ imHeight' = IMAGE_HEIGHT
            /\ pc' = "glitch"
       ELSE /\ pc' = "exit"
            /\ UNCHANGED <<imWidth, imHeight>>
    /\ UNCHANGED <<driverVars, DITHER, p, pixVars, sortVars>>

\* lines 274-292: block size, rotation (a transposition for the angles of the
\* model), border, currentHeight = 0.  int(IMAGE_WIDTH/0) raises; a pass with a
\* negative block count is not followed.
GlitchEnter ==
    /\ pc = "glitch"
    /\ IF BLOCKS = 0
       THEN /\ pc' = "ZeroDivisionError"
            /\ UNCHANGED <<wBlock, hBlock, imWidth, imHeight, currentHeight, visited>>
       ELSE IF BLOCKS < 0
       THEN /\ pc' = "negativeBlocks"
            /\ UNCHANGED <<wBlock, hBlock, imWidth, imHeight, currentHeight, visited>>
       ELSE LET wb == TruncDiv(IMAGE_WIDTH, BLOCKS)
                hb == TruncDiv(IMAGE_HEIGHT, BLOCKS)
                rw == IF Abs(ROTATION) = 90 THEN imHeight ELSE imWidth
                rh == IF Abs(ROTATION) = 90 THEN imWidth ELSE imHeight
                bordered == ROTATION = 0 \/ Abs(ROTATION) = 90
            IN /\ wBlock' = wb /\ hBlock' = hb
               /\ imWidth' = IF bordered THEN BorderedSize(rw, Border(wb, hb)) ELSE rw
               /\ imHeight' = IF bordered THEN BorderedSize(rh, Border(wb, hb)) ELSE rh
               /\ currentHeight' = 0
               /\ visited' = {}
               /\ pc' = "outer"
    /\ UNCHANGED <<BLOCKS, INTENSITY, ROTATION, FUZZY_EDGES, DITHER, IMAGE_WIDTH,
                   IMAGE_HEIGHT, NUM_OUTPUT, iteration, outWidth, outHeight,
                   currentWidth, k, p, pixVars, sortVars>>

\* lines 296-299: the test of the outer loop
OuterTest ==
    /\ pc = "outer"
    /\ IF InBound(currentHeight, hBlock, IMAGE_WIDTH, IMAGE_HEIGHT)
       THEN currentWidth' = 0 /\ pc' = "inner"
       ELSE pc' = "unrotate" /\ UNCHANGED currentWidth
    /\ UNCHANGED <<BLOCKS, INTENSITY, ROTATION, FUZZY_EDGES, DITHER, IMAGE_WIDTH,
                   IMAGE_HEIGHT, NUM_OUTPUT, iteration, outWidth, outHeight,
                   imWidth, imHeight, wBlock, hBlock, currentHeight, visited,
                   k, p, pixVars, sortVars>>

\* lines 300-302, 315: the test of the inner loop; when it fails the outer loop
\* advances
InnerTest ==
    /\ pc = "inner"
    /\ IF InBound(currentWidth, wBlock, IMAGE_WIDTH, IMAGE_HEIGHT)
       THEN pc' = "block" /\ UNCHANGED currentHeight
       ELSE /\ currentHeight' = currentHeight + Stride(BLOCKS, hBlock)
            /\ pc' = "outer"
    /\ UNCHANGED <<BLOCKS, INTENSITY, ROTATION, FUZZY_EDGES, DITHER, IMAGE_WIDTH,
                   IMAGE_HEIGHT, NUM_OUTPUT, iteration, outWidth, outHeight,
                   imWidth, imHeight, wBlock, hBlock, currentWidth, visited,
                   k, p, pixVars, sortVars>>

\* lines 311-313: the argument p of the call: the exponent is drawn
DrawProbability ==
    /\ pc = "block"
    /\ \E e \in Exponents(BLOCKS, INTENSITY) :
          /\ k' = e
          /\ p' = Prob(BLOCKS, e)
    /\ pc' = "pixSort"
    /\ UNCHANGED <<BLOCKS, INTENSITY, ROTATION, FUZZY_EDGES, DITHER, IMAGE_WIDTH,
                   IMAGE_HEIGHT, NUM_OUTPUT, iteration, outWidth, outHeight,
                   imWidth, imHeight, wBlock, hBlock, currentHeight, currentWidth,
                   visited, pixVars, sortVars>>

\* lines 303-307, 314: pixSort is called on the block, the inner loop advances
PixSortCall ==
    /\ pc = "pixSort"
    /\ visited' = visited \cup BlockCoords(currentWidth, currentHeight, wBlock, hBlock,
                                          imWidth, imHeight)
    /\ currentWidth' = currentWidth + Stride(BLOCKS, wBlock)
    /\ pc' = "inner"
    /\ UNCHANGED <<BLOCKS, INTENSITY, ROTATION, FUZZY_EDGES, DITHER, IMAGE_WIDTH,
                   IMAGE_HEIGHT, NUM_OUTPUT, iteration, outWidth, outHeight,
                   imWidth, imHeight, wBlock, hBlock, currentHeight, k, p,
                   pixVars, sortVars>>

\* lines 318-327: the rotation is undone
Unrotate ==
    /\ pc = "unrotate"
    /\ imWidth' = (IF Abs(ROTATION) = 90 THEN imHeight ELSE imWidth)
    /\ imHeight' = (IF Abs(ROTATION) = 90 THEN imWidth ELSE imHeight)
    /\ pc' = "crop"
    /\ UNCHANGED <<driverVars, DITHER, p, pixVars, sortVars>>

\* lines 343-377: the crop box, the crop, the file is saved, iteration += 1
CropAndSave ==
    /\ pc = "crop"
    /\ LET left == CropLow(imWidth, IMAGE_WIDTH, BLOCKS, FUZZY_EDGES, ROTATION)
           top == CropLow(imHeight, IMAGE_HEIGHT, BLOCKS, FUZZY_EDGES, ROTATION)
           right == CropHigh(imWidth, IMAGE_WIDTH, BLOCKS, FUZZY_EDGES, ROTATION)
           bottom == CropHigh(imHeight, IMAGE_HEIGHT, BLOCKS, FUZZY_EDGES, ROTATION)
       IN /\ outWidth' = right - left
          /\ outHeight' = bottom - top
          /\ imWidth' = right - left
          /\ imHeight' = bottom - top
    /\ iteration' = iteration + 1
    /\ pc' = "main"
    /\ UNCHANGED <<BLOCKS, INTENSITY, ROTATION, FUZZY_EDGES, DITHER, IMAGE_WIDTH,
                   IMAGE_HEIGHT, NUM_OUTPUT, wBlock, hBlock, currentHeight,
                   currentWidth, k, p, visited, pixVars, sortVars>>

Next ==
    \/ ParseOptions
    \/ IntensityFailsafe
    \/ OpenImage
    \/ MainLoop
    \/ GlitchEnter
    \/ OuterTest
    \/ InnerTest
    \/ DrawProbability
    \/ PixSortCall
    \/ Unrotate
    \/ CropAndSave

Spec == Init /\ [][Next]_vars

(***************************************************************************)
(* Claims about the driver, checked under Spec.                            *)
(***************************************************************************)
InPass == pc \in {"glitch", "outer", "inner", "block", "pixSort", "unrotate", "crop"}

\* C1: the failsafe replaces INTENSITY by 3 - BLOCKS when BLOCKS + INTENSITY < 3
\* and leaves it alone otherwise; afterwards BLOCKS + INTENSITY >= 3 holds in
\* every state, and no step of any pass changes BLOCKS or INTENSITY.
C1_IntensityFailsafe ==
    /\ [](pc \notin {"parse", "failsafe"} => BLOCKS + INTENSITY >= 3)
    /\ [][pc = "failsafe" =>
            INTENSITY' = (IF BLOCKS + INTENSITY < 3 THEN 3 - BLOCKS ELSE INTENSITY)]_vars
    /\ [][pc \notin {"parse", "failsafe"} =>
            INTENSITY' = INTENSITY /\ BLOCKS' = BLOCKS]_vars

\* an intensity no command line of the model gives: the failsafe has replaced it
C1_Witness ==
    /\ pc = "open"
    /\ INTENSITY = 3 - BLOCKS
    /\ INTENSITY > MaxIntensity

\* C2: with angle 0 and no fuzzy edges, the canvas of the tiling loops is the
\* image plus max(wBlock, hBlock) on every side, and the image a pass saves has
\* the width and height of the original.
C2_RoundTripGeometry ==
    (ROTATION = 0 /\ ~FUZZY_EDGES /\ BLOCKS >= 1) =>
        /\ pc \in {"outer", "inner", "block", "pixSort", "unrotate", "crop"} =>
              /\ imWidth = IMAGE_WIDTH + 2 * Max(wBlock, hBlock)
              /\ imHeight = IMAGE_HEIGHT + 2 * Max(wBlock, hBlock)
        /\ (pc = "main" /\ iteration > 0) =>
              /\ outWidth = IMAGE_WIDTH
              /\ outHeight = IMAGE_HEIGHT

\* a pass over a non-square image with more than one block has saved its output
C2_Witness ==
    /\ pc = "main" /\ iteration > 0
    /\ ROTATION = 0 /\ ~FUZZY_EDGES /\ BLOCKS > 1
    /\ IMAGE_WIDTH # IMAGE_HEIGHT
    /\ outWidth = IMAGE_WIDTH /\ outHeight = IMAGE_HEIGHT

\* C5: when the tiling loops of a pass are over, every coordinate of the
\* working canvas lies in a block that was handed to pixSort.
C5_TilingCoversCanvas ==
    (pc = "unrotate" /\ BLOCKS >= 1) => visited = CanvasCoords(imWidth, imHeight)

\* C9: with 1 <= BLOCKS <= min(IMAGE_WIDTH, IMAGE_HEIGHT), every block moves
\* currentWidth forward and every end of the inner loop moves currentHeight
\* forward.
C9_LoopsAdvance ==
    [][ (InPass /\ 1 <= BLOCKS /\ BLOCKS <= Min(IMAGE_WIDTH, IMAGE_HEIGHT)) =>
            /\ pc = "pixSort" => currentWidth' > currentWidth
            /\ (pc = "inner" /\ pc' = "outer") => currentHeight' > currentHeight ]_vars

\* C10: the probability handed to pixSort lies in [0, 1] and its exponent is
\* not negative.
C10_ValidProbability ==
    (pc = "pixSort" /\ BLOCKS >= 1 /\ BLOCKS + INTENSITY >= 3) =>
        /\ k >= 0
        /\ 0 <= p.num /\ p.num <= p.den

(***************************************************************************)
(* partialSort on its own: SpecPartialSort.                                *)
(***************************************************************************)
RECURSIVE SeqsUpTo(_, _)
SeqsUpTo(S, n) ==
    IF n = 0 THEN { <<>> }
    ELSE LET shorter == SeqsUpTo(S, n - 1)
         IN shorter \cup { Append(s, x) : s \in { t \in shorter : Len(t) = n - 1 }, x \in S }

InitPartialSort ==
    /\ pc = "partialSort"
    /\ numList \in SeqsUpTo(Palette, MaxLen)
    /\ ls = None /\ a = None /\ b = None /\ asc = None /\ mid = None /\ raised = None
    /\ GlobalsAtDefault
    /\ imWidth = None /\ imHeight = None /\ p = None /\ image = None
    /\ DriverIdle /\ PixSortIdle

\* lines 170-183: one call, with every outcome of the draws
PartialSortCall ==
    /\ pc = "partialSort"
    /\ \E r \in partialSort(numList) :
          /\ raised' = r.raised /\ ls' = r.ls
          /\ a' = r.a /\ b' = r.b /\ asc' = r.asc /\ mid' = r.mid
          /\ pc' = IF r.raised THEN "ValueError" ELSE "returned"
    /\ UNCHANGED <<numList, driverVars, DITHER, imWidth, imHeight, p, pixVars>>

NextPartialSort == PartialSortCall

SpecPartialSort == InitPartialSort /\ [][NextPartialSort]_vars

\* the number of positions of s that hold x
Count(s, x) == Cardinality({ i \in 1..Len(s) : s[i] = x })

\* the 0-based range [lo, hi) the branch taken sorts
RangeLow == IF asc /\ ~mid THEN 0 ELSE a
RangeHigh == IF ~asc /\ ~mid THEN Len(numList) ELSE b

\* C4: for a line of length N >= 2 partialSort returns (it does not raise) a
\* permutation of its argument, of the same length, with a in [0, N-2] and
\* b in [a+1, N-1]; the range of the branch taken is ascending (ascending
\* branch) or descending (descending branch) in tuple order, and every
\* position outside the range holds what it held.
C4_PartialSortResult ==
    (pc # "partialSort" /\ Len(numList) >= 2) =>
        /\ pc = "returned"
        /\ a \in 0..(Len(numList) - 2)
        /\ b \in (a + 1)..(Len(numList) - 1)
        /\ Len(ls) = Len(numList)
        /\ \A x \in Palette : Count(ls, x) = Count(numList, x)
        /\ \A i, j \in (RangeLow + 1)..RangeHigh :
              i < j => IF asc THEN TupleLeq(ls[i], ls[j]) ELSE TupleLeq(ls[j], ls[i])
        /\ \A i \in 1..Len(numList) :
              (i <= RangeLow \/ i > RangeHigh) => ls[i] = numList[i]

\* the end case has reordered a tail that reaches past b
C4_Witness ==
    /\ pc = "returned"
    /\ ~asc /\ ~mid
    /\ b < Len(numList) - 1
    /\ ls[Len(ls)] # numList[Len(numList)]

(***************************************************************************)
(* pixSort on its own: SpecPixSort.  The canvas is indexed as Pillow       *)
(* indexes it, by (x, y); pixSort calls getpixel((y, x)) and               *)
(* putpixel((y + offset, startW + x)), so its "y" runs along Pillow's x.   *)
(***************************************************************************)
InCanvas(c) == /\ 0 <= c[1] /\ c[1] < imWidth
               /\ 0 <= c[2] /\ c[2] < imHeight

\* probability(q) for q = num/den, den > 0: random() lies in [0, 1), so the
\* event can happen when q > 0 and can fail to happen when q < 1
probability(num, den) ==
    (IF num > 0 THEN {TRUE} ELSE {}) \cup (IF num < den THEN {FALSE} ELSE {})

\* a faulty variant: a read outside the canvas yields a black pixel and the
\* loop goes on
RECURSIVE ReadLinePadded(_, _, _, _)
ReadLinePadded(img, row, x, stop) ==
    IF x < stop
    THEN <<IF InCanvas(<<row, x>>) THEN img[<<row, x>>] ELSE <<0, 0, 0>>>>
           \o ReadLinePadded(img, row, x + 1, stop)
    ELSE <<>>

\* lines 227-232: pixels are appended until getpixel raises IndexError
RECURSIVE ReadLineFrom(_, _, _, _)
ReadLineFrom(img, row, x, stop) ==
    IF x < stop /\ InCanvas(<<row, x>>)
    THEN <<img[<<row, x>>]>> \o ReadLineFrom(img, row, x + 1, stop)
    ELSE <<>>

\* a faulty variant: the line is emptied when partialSort raises
LineEmptiedOnError(l, r) == IF r.raised THEN <<>> ELSE r.ls

\* lines 236-239: the line keeps its value when partialSort raises ValueError
LineAfterSort(l, r) == IF r.raised THEN l ELSE r.ls

\* a faulty variant: the channel restored is the one after the chosen one
RestoreNextChannel(l, orig, c) ==
    [px \in 1..Len(l) |->
        [ch \in 1..3 |-> IF ch = ((c + 1) % 3) + 1 THEN orig[px][ch] ELSE l[px][ch]]]

\* lines 243-249: channel c (0 = R, 1 = G, 2 = B) is taken from the original
\* line at every position
RestoreChannel(l, orig, c) ==
    [px \in 1..Len(l) |->
        [ch \in 1..3 |-> IF ch = c + 1 THEN orig[px][ch] ELSE l[px][ch]]]

\* a faulty variant: the row offset starts at 0
RowOffsetsFromZero(dither) == IF dither THEN {0, 1, 2} ELSE {0}

\* lines 253-255: randrange(1, 3) if probability(0.1) and DITHER else 1
RowOffsets(dither) == IF dither THEN randrange(1, 3) \cup {1} ELSE {1}

\* lines 251-259: putpixel for each pixel in turn; the first IndexError ends
\* the loop.  The result is the canvas and the writes made, in order.
RECURSIVE WriteLineFrom(_, _, _, _, _, _)
WriteLineFrom(img, row, col, l, offs, x) ==
    IF x >= Len(l) THEN [image |-> img, wrote |-> <<>>]
    ELSE LET at == <<row + offs[x + 1], col + x>>
         IN IF ~InCanvas(at) THEN [image |-> img, wrote |-> <<>>]
            ELSE LET rest == WriteLineFrom([img EXCEPT ![at] = l[x + 1]],
                                           row, col, l, offs, x + 1)
                 IN [image |-> rest.image,
                     wrote |-> <<[px |-> x, at |-> at]>> \o rest.wrote]

\* the pictures of the model: three pixel values laid out so that the lines
\* read from them run through the values in every order
PictureValues == << <<0, 1, 0>>, <<1, 0, 1>>, <<1, 1, 0>> >>

Pictures(w, h) ==
    { [c \in CanvasCoords(w, h) |-> PictureValues[((c[1] + step * c[2] + s) % 3) + 1]] :
        step \in 1..2, s \in 0..2 }

\* the probabilities glitch computes for one block and exponents -1, 0, 1
PixSortProbs == { Prob(1, e) : e \in (-1)..1 }

\* a call of pixSort(image, startW, startH, endW, endH, p) with a region that
\* starts at non-negative coordinates, as the regions of glitch do; y holds
\* the last value the for statement took, startH - 1 before the first
InitPixSort ==
    /\ pc = "for"
    /\ imWidth \in 1..MaxCanvasWidth /\ imHeight \in 1..MaxCanvasHeight
    /\ image \in Pictures(imWidth, imHeight)
    /\ startW \in 0..imHeight /\ startH \in 0..imWidth
    /\ \E n \in 1..imHeight : endW = startW + n
    /\ \E n \in 1..2 : endH = startH + n
    /\ p \in PixSortProbs
    /\ DITHER \in BOOLEAN
    /\ y = startH - 1
    /\ line = <<>> /\ originalLine = <<>> /\ colour = None /\ restored = FALSE
    /\ offsets = <<>> /\ wrote = <<>> /\ before = image
    /\ BLOCKS = DEFAULT_BLOCKS /\ NUM_OUTPUT = DEFAULT_NUM_OUTPUT
    /\ INTENSITY = DEFAULT_INTENSITY /\ ROTATION = DEFAULT_ROTATION
    /\ FUZZY_EDGES = FALSE /\ IMAGE_WIDTH = None /\ IMAGE_HEIGHT = None
    /\ DriverIdle /\ PartialSortIdle

\* line 223: the for statement takes the next value of range(startH, endH)
ForNext ==
    /\ pc \in {"for", "skipped", "written"}
    /\ IF y + 1 < endH
       THEN y' = y + 1 /\ pc' = "gate"
       ELSE pc' = "return" /\ UNCHANGED y
    /\ UNCHANGED <<driverVars, DITHER, imWidth, imHeight, p, image, startW, startH,
                   endW, endH, line, originalLine, colour, restored, offsets, wrote,
                   before, sortVars>>

\* line 225: if probability(p)
Gate ==
    /\ pc = "gate"
    /\ \E hit \in probability(p.num, p.den) :
          pc' = IF hit THEN "read" ELSE "skipped"
    /\ UNCHANGED <<driverVars, DITHER, imWidth, imHeight, p, pixVars, sortVars>>

\* lines 226-232: the line is read
ReadLine ==
    /\ pc = "read"
    /\ line' = ReadLineFrom(image, y, startW, endW)
    /\ before' = image
    /\ wrote' = <<>>
    /\ pc' = "sort"
    /\ UNCHANGED <<driverVars, DITHER, imWidth, imHeight, p, image, startW, startH,
                   endW, endH, y, originalLine, colour, restored, offsets, sortVars>>

\* lines 234-239: the backup, then partialSort inside try / except ValueError
SortLine ==
    /\ pc = "sort"
    /\ originalLine' = line
    /\ numList' = line
    /\ \E r \in partialSort(line) :
          /\ raised' = r.raised /\ ls' = r.ls
          /\ a' = r.a /\ b' = r.b /\ asc' = r.asc /\ mid' = r.mid
          /\ line' = LineAfterSort(line, r)
    /\ pc' = "restore"
    /\ UNCHANGED <<driverVars, DITHER, imWidth, imHeight, p, image, startW, startH,
                   endW, endH, y, colour, restored, offsets, wrote, before>>

\* lines 241-249: with probability p * 0.75 one channel is restored
Restore ==
    /\ pc = "restore"
    /\ \E hit \in probability(3 * p.num, 4 * p.den) :
          IF hit
          THEN \E c \in randrange(0, 3) :
                  /\ colour' = c
                  /\ line' = RestoreChannel(line, originalLine, c)
                  /\ restored' = TRUE
          ELSE restored' = FALSE /\ UNCHANGED <<colour, line>>
    /\ pc' = "write"
    /\ UNCHANGED <<driverVars, DITHER, imWidth, imHeight, p, image, startW, startH,
                   endW, endH, y, originalLine, offsets, wrote, before, sortVars>>

\* lines 251-259: the line is written into the canvas
WriteBack ==
    /\ pc = "write"
    /\ \E offs \in [1..Len(line) -> RowOffsets(DITHER)] :
          LET done == WriteLineFrom(image, y, startW, line, offs, 0)
          IN /\ offsets' = offs
             /\ image' = done.image
             /\ wrote' = done.wrote
    /\ pc' = "written"
    /\ UNCHANGED <<driverVars, DITHER, imWidth, imHeight, p, startW, startH,
                   endW, endH, y, line, originalLine, colour, restored, before,
                   sortVars>>

NextPixSort ==
    \/ ForNext
    \/ Gate
    \/ ReadLine
    \/ SortLine
    \/ Restore
    \/ WriteBack

SpecPixSort == InitPixSort /\ [][NextPixSort]_vars

(***************************************************************************)
(* Claims about pixSort, checked under SpecPixSort.                        *)
(***************************************************************************)
\* the line as it left the sort step of the row: partialSort's result, or the
\* line as read when partialSort raised
SortedLine == IF raised THEN originalLine ELSE ls

\* where pixel i (1-based) of the line of the row was sent
Target(i) == <<y + offsets[i], startW + i - 1>>

\* C3, as claimed: for a line of fewer than 2 pixels partialSort returns, and
\* returns its argument.
C3_ShortLineReturned ==
    (pc = "restore" /\ Len(numList) < 2) => (~raised /\ ls = numList)

\* C3, amended: for a line of fewer than 2 pixels partialSort raises
\* ValueError; pixSort goes on to its restore step with the line as it was
\* read.
C3_ShortLineRaisesAndIsKept ==
    (pc = "restore" /\ Len(numList) < 2) =>
        (raised /\ line = numList /\ originalLine = numList)

\* a line of one pixel went through the sort step
C3_Witness == pc = "restore" /\ Len(numList) = 1 /\ raised /\ line = numList

\* C6: after a restore that triggered, at every position of the line the
\* chosen channel holds the value of the line as read and the two other
\* channels hold the values of the line as sorted.
C6_ChannelRestore ==
    (pc = "write" /\ restored) =>
        /\ colour \in 0..2
        /\ Len(line) = Len(originalLine)
        /\ \A px \in 1..Len(line) : \A ch \in 1..3 :
              line[px][ch] = IF ch = colour + 1 THEN originalLine[px][ch]
                             ELSE SortedLine[px][ch]

\* the restore mixed a reordered line with the line as read
C6_Witness ==
    /\ pc = "write" /\ restored /\ ~raised
    /\ line # ls /\ line # originalLine

\* C7, as claimed: the pixels of the line of row y are written at column
\* startW + index, at row y without dithering and at row y, y + 1 or y + 2
\* with dithering.
C7_WrittenAtRowRead ==
    pc = "written" =>
        \A i \in 1..Len(wrote) :
            /\ wrote[i].at[2] = startW + wrote[i].px
            /\ wrote[i].at[1] \in (IF DITHER THEN {y, y + 1, y + 2} ELSE {y})

\* C7, amended: the pixels of the line of row y are written in column order at
\* column startW + index, at row y + 1 without dithering and at row y + 1 or
\* y + 2 with dithering; the canvas changes nowhere else.
C7_WrittenOneRowOn ==
    pc = "written" =>
        /\ \A i \in 1..Len(wrote) :
              /\ wrote[i].px = i - 1
              /\ wrote[i].at = Target(i)
              /\ wrote[i].at[2] = startW + wrote[i].px
              /\ wrote[i].at[1] \in (IF DITHER THEN {y + 1, y + 2} ELSE {y + 1})
              /\ image[wrote[i].at] = line[i]
        /\ \A c \in CanvasCoords(imWidth, imHeight) :
              image[c] # before[c] => \E i \in 1..Len(wrote) : wrote[i].at = c

\* with dithering, one pixel of a line went one row on and another two rows on
C7_Witness ==
    /\ pc = "written" /\ DITHER
    /\ \E i, j \in 1..Len(wrote) :
          wrote[i].at[1] = y + 1 /\ wrote[j].at[1] = y + 2
    /\ image # before

\* C8: after the write-back of a row, every pixel of the line whose target lies
\* inside the canvas has been written there.
C8_OnlyOutsideWritesDropped ==
    pc = "written" =>
        \A i \in 1..Len(line) :
            InCanvas(Target(i)) => \E j \in 1..Len(wrote) : wrote[j].px = i - 1

\* the region of the call has no row, or no column, inside the canvas
BlockOutsideCanvas == startH >= imWidth \/ startW >= imHeight

\* C11: a call of pixSort on a region entirely outside the canvas changes no
\* pixel, whatever p and the draws: every line it reads is empty, partialSort
\* raises ValueError on it and pixSort catches that, nothing is written, and
\* the call goes on to its return.
C11_OutsideBlockIsNoOp ==
    /\ [][BlockOutsideCanvas => image' = image]_vars
    /\ [](BlockOutsideCanvas =>
            /\ pc \in {"sort", "restore", "write", "written"} => line = <<>>
            /\ pc \in {"restore", "write", "written"} => raised
            /\ pc = "written" => (wrote = <<>> /\ image = before))
    /\ [][(BlockOutsideCanvas /\ pc = "written") => pc' \in {"gate", "return"}]_vars

\* a row of a region outside the canvas passed its trial and went through the
\* read, sort, restore and write steps
C11_Witness ==
    /\ BlockOutsideCanvas
    /\ pc = "written"
    /\ line = <<>> /\ raised /\ wrote = <<>> /\ image = before

====
